---------------------------- MODULE Spec2Model ----------------------------
(***************************************************************************)
(* A model of MicrobitWebUSBConnection (src/src/device/microbit.ts): the   *)
(* connection status state machine, the flash sequence and the error       *)
(* enrichment applied to failures.                                         *)
(*                                                                         *)
(* Every async method is a call record in `calls`.  A call runs            *)
(* synchronously up to its first `await`; from there it advances one       *)
(* continuation at a time: a step is the completion of the awaited         *)
(* collaborator call together with the continuation it wakes, which run in *)
(* one turn of the JavaScript event loop.  Overlapping calls interleave    *)
(* at their awaits.  Device notifications of navigator.usb reach the       *)
(* handlers that initialize() has registered.                              *)
(*                                                                         *)
(* PartialFlashing, BoardId and the data source are not part of the        *)
(* sources at hand; they are modelled from their interface description.    *)
(***************************************************************************)
EXTENDS Integers, Sequences, FiniteSets, TLC

VARIABLES
    usb,        \* navigator.usb is defined
    options,    \* this.options: [autoConnect, deviceFilters]
    status,     \* this.status
    dap,        \* this.connection: [open, device]
    calls,      \* the calls issued so far, in order; a finished one is Retired
    done,       \* the call the last step finished, as it finished (else Retired)
    emitted,    \* the events the last step emitted, in emission order
    notified,   \* device attach/detach notifications delivered so far
    initialized,\* initialize() has been called
    notice,     \* the device notification the last step delivered (else NoNotice)
    observed,   \* the status the last status event carried (at first, status)
    raw,        \* enrichedError's argument (classifier specification)
    enriched,   \* enrichedError's result (classifier specification)
    listeners,  \* how many listeners the application has subscribed (on / off)
    applied,    \* how many times enrichedError has been applied to raw
    probe,      \* matchesDeviceFilter's argument (filter specification)
    matched     \* matchesDeviceFilter's result, once computed (filter specification)

vars == <<usb, options, status, dap, calls, done, emitted, notified,
          initialized, notice, observed, listeners, raw, enriched, applied,
          probe, matched>>

mainVars == <<usb, options, status, dap, calls, done, emitted, notified,
              initialized, notice, observed, listeners>>

classifyVars == <<raw, enriched, applied>>

filterVars == <<probe, matched>>

pureVars == <<classifyVars, filterVars>>

-----------------------------------------------------------------------------
(* Bounds *)

MaxCalls == 3

MaxInFlight == 2

MaxProgress == 1

MaxNotifications == 1

MaxApplied == 2

MaxListeners == 1

-----------------------------------------------------------------------------
(* Enumerations and constants of microbit.ts *)

UNABLE_TO_CLAIM_INTERFACE == "UNABLE_TO_CLAIM_INTERFACE"

UNKNOWN == "UNKNOWN"

ConnectionErrorType == {UNABLE_TO_CLAIM_INTERFACE, UNKNOWN}

NOT_SUPPORTED == "NOT_SUPPORTED"

NO_AUTHORIZED_DEVICE == "NO_DEVICE"

NOT_CONNECTED == "NOT_CONNECTED"

CONNECTED == "CONNECTED"

ConnectionStatus == {NOT_SUPPORTED, NO_AUTHORIZED_DEVICE, NOT_CONNECTED, CONNECTED}

INTERACTIVE == "INTERACTIVE"

NON_INTERACTIVE == "NON_INTERACTIVE"

ConnectionMode == {INTERACTIVE, NON_INTERACTIVE}

EVENT_STATUS == "status"

EVENT_SERIAL_ERROR == "serial_error"

EVENT_AUTOCONNECT_ERROR == "autoconnect_error"

\* JavaScript's undefined, for a value that is otherwise a string.
Undefined == "undefined"

-----------------------------------------------------------------------------
(* Thrown values and enrichedError *)

\* A thrown value: an Error object (isError) with its message and its `type`
\* property, or a non-Error value, of which only the string conversion
\* (kept in message) matters.
Thrown(isError, message, type) ==
    [isError |-> isError, message |-> message, type |-> type]

NewError(message) == Thrown(TRUE, message, Undefined)

NoError == Thrown(FALSE, "<none>", Undefined)

ClaimMessage == "Unable to claim interface."

ClaimAdvice ==
    "Cannot connect. Check no other browser tabs or windows are using the micro:bit."

UnsupportedMessage == "Unsupported. Check connection status first."

\* Property names every object literal inherits from Object.prototype: a
\* lookup specialCases[key] with one of these keys yields a (truthy) inherited
\* member, which has neither a `message` nor a `type` property.
ObjectPrototypeKeys ==
    {"constructor", "toString", "valueOf", "hasOwnProperty", "__proto__"}

\* specialCases[key]: the entry found, with its type and message.
specialCases(key) ==
    IF key = ClaimMessage
    THEN [found |-> TRUE, type |-> UNABLE_TO_CLAIM_INTERFACE, message |-> ClaimAdvice]
    ELSE IF key \in ObjectPrototypeKeys
    THEN [found |-> TRUE, type |-> Undefined, message |-> Undefined]
    ELSE [found |-> FALSE, type |-> Undefined, message |-> Undefined]

\* new Error(m): an undefined message leaves the message empty.
ErrorOf(m) == NewError(IF m = Undefined THEN "" ELSE m)

enrichedError(e) ==
    LET e1 == IF e.isError THEN e ELSE ErrorOf(e.message)
        special == specialCases(e1.message)
    IN  IF special.found
        THEN [ErrorOf(special.message) EXCEPT !.type = special.type]
        ELSE [e1 EXCEPT !.type = UNKNOWN]

\* withEnrichedErrors(f): what it throws when f throws e.
withEnrichedErrors(e) == enrichedError(e)

-----------------------------------------------------------------------------
(* Collaborators, modelled from their interface *)

None == "none"

\* vendorId/productId of the micro:bit (0x0d28, 0x0204).
MicrobitVendorId == 3368

MicrobitProductId == 516

Devices ==
    { [name |-> "microbit1", vendorId |-> MicrobitVendorId, productId |-> MicrobitProductId],
      [name |-> "microbit2", vendorId |-> MicrobitVendorId, productId |-> MicrobitProductId],
      [name |-> "other", vendorId |-> MicrobitVendorId, productId |-> 1] }

NoDevice == [name |-> None, vendorId |-> 0, productId |-> 0]

\* The devices connectSession can open a session on.
ConnectableDevices == {d \in Devices : d.name = "microbit1"}

Wild == -1

DefaultFilters == { [vendorId |-> MicrobitVendorId, productId |-> MicrobitProductId] }

FilterSets ==
    { DefaultFilters,
      { [vendorId |-> MicrobitVendorId, productId |-> Wild] } }

\* Failures of connectSession / disconnectSession.
TransportErrors ==
    { NewError(ClaimMessage),
      Thrown(FALSE, "transfer error", Undefined) }

ParseError == NewError("Could not parse board id")

DataSourceError == NewError("Could not fetch firmware")

FlashError == NewError("Flash failed")

RawBoardIds == {"9904", "zz"}

\* BoardId.parse: a hexadecimal identifier parses, anything else throws.
BoardIdParse(rawId) ==
    IF rawId = "9904"
    THEN [ok |-> TRUE, id |-> "0x9904", e |-> NoError]
    ELSE [ok |-> FALSE, id |-> None, e |-> ParseError]

\* dataSource(boardId) when it succeeds: the payload for that board.
FlashPayload(boardId) ==
    [bytes |-> "bytes:" \o boardId, intelHex |-> "hex:" \o boardId]

Percentages == {0, 100}

\* The progress callback's argument when no percentage is given.
NoPercentage == -1

-----------------------------------------------------------------------------
(* Calls *)

\* The outcome of an awaited call: it resolved, or it threw e.
Ok == [k |-> "ok", e |-> NoError]

Fail(e) == [k |-> "err", e |-> e]

Step(fn, args) == [fn |-> fn, args |-> args]

\* A call just issued: op is the method, origin who issued it ("caller", or
\* the method that started it in the background), pc the collaborator call
\* it awaits.  trace lists the collaborator calls it has made, progress the
\* arguments it has passed to the progress callback, idle whether its
\* teardown found no session, prompted whether its connectDapAsync asked the
\* user to authorize a device.
NewCall(op, mode, origin, partial, pc, trace) ==
    [id |-> 0, op |-> op, mode |-> mode, origin |-> origin, partial |-> partial,
     pc |-> pc, out |-> "pending", err |-> NoError,
     ret |-> None, boardId |-> None, idle |-> FALSE, prompted |-> FALSE,
     trace |-> trace, progress |-> <<>>]

\* What is left in `calls` of a call that has finished, and `done` after a
\* step that finished no call.
Retired ==
    [id |-> 0, op |-> None, mode |-> None, origin |-> None, partial |-> FALSE,
     pc |-> "done", out |-> None, err |-> NoError,
     ret |-> None, boardId |-> None, idle |-> FALSE, prompted |-> FALSE,
     trace |-> <<>>, progress |-> <<>>]

\* The call c once it has returned v (its promise resolved).
Returned(c, v) == [c EXCEPT !.pc = "done", !.out = "ok", !.ret = v]

\* The call c once it has thrown e (its promise rejected).
Threw(c, e) == [c EXCEPT !.pc = "done", !.out = "err", !.err = e]

InFlight == Cardinality({i \in 1..Len(calls) : calls[i].pc # "done"})

\* There is room for one more call.
Room ==
    /\ Len(calls) < MaxCalls
    /\ InFlight < MaxInFlight

\* The call c is issued.
Issue(c) ==
    IF c.pc = "done"
    THEN calls' = Append(calls, Retired) /\ done' = [c EXCEPT !.id = Len(calls) + 1]
    ELSE calls' = Append(calls, c) /\ done' = Retired

\* Call i goes on as c.
Advance(i, c) ==
    IF c.pc = "done"
    THEN calls' = [calls EXCEPT ![i] = Retired] /\ done' = [c EXCEPT !.id = i]
    ELSE calls' = [calls EXCEPT ![i] = c] /\ done' = Retired

Awaiting(i, op, pc) ==
    /\ i \in 1..Len(calls)
    /\ calls[i].op = op
    /\ calls[i].pc = pc

Event(ch, st, e) == [ch |-> ch, status |-> st, err |-> e]

\* setStatus(newStatus): what it emits.
setStatusEmitsNothing(newStatus) == <<>>

setStatus(newStatus) == <<Event(EVENT_STATUS, newStatus, NoError)>>

\* A device notification of navigator.usb: "connect" or "disconnect" for
\* event.device = device.
Notice(kind, device) == [kind |-> kind, device |-> device]

NoNotice == Notice(None, NoDevice)

\* What a listener on the status event has received last, after a step
\* that emitted `events`.
Listened(events, before) ==
    LET at == {k \in 1..Len(events) : events[k].ch = EVENT_STATUS}
    IN  IF at = {}
        THEN before
        ELSE events[CHOOSE k \in at : \A j \in at : j <= k].status

\* A step of a method call: it delivers no device notification.
MethodStep ==
    /\ notice' = NoNotice
    /\ observed' = Listened(emitted', observed)

\* matchesDeviceFilter
matchesDeviceFilterEvery(device) ==
    \A filter \in options.deviceFilters :
        /\ (filter.productId = Wild \/ filter.productId = device.productId)
        /\ (filter.vendorId = Wild \/ filter.vendorId = device.vendorId)

matchesDeviceFilter(device) ==
    \E filter \in options.deviceFilters :
        /\ (filter.productId = Wild \/ filter.productId = device.productId)
        /\ (filter.vendorId = Wild \/ filter.vendorId = device.vendorId)

\* getPairedDevice, with getDevices() answering `devices`.
getPairedDeviceAnyMatch(devices) ==
    IF ~usb
    THEN NoDevice
    ELSE LET matching == {d \in devices : matchesDeviceFilter(d)}
         IN  IF matching # {}
             THEN CHOOSE d \in matching : TRUE
             ELSE NoDevice

getPairedDevice(devices) ==
    IF ~usb
    THEN NoDevice
    ELSE LET matching == {d \in devices : matchesDeviceFilter(d)}
         IN  IF Cardinality(matching) = 1
             THEN CHOOSE d \in matching : TRUE
             ELSE NoDevice

\* assertSupported: it throws when navigator.usb is undefined.
assertSupportedNeverThrows == FALSE

assertSupportedThrows == ~usb

\* What connectInternal returns when the session is established.
connectInternalReturnsNotConnected == NOT_CONNECTED

connectInternalResult == CONNECTED

\* The status disconnect() sets.
disconnectStatusNoDevice == NO_AUTHORIZED_DEVICE

disconnectStatus == NOT_CONNECTED

\* connect(mode) up to its first await: assertSupported throws, or
\* connectDapAsync is called and awaited.
connectCallInteractive(mode, origin) ==
    IF assertSupportedThrows
    THEN Threw(NewCall("connect", INTERACTIVE, origin, FALSE, "assertSupported", <<>>),
               withEnrichedErrors(NewError(UnsupportedMessage)))
    ELSE NewCall("connect", INTERACTIVE, origin, FALSE, "connectDapAsync",
                 <<Step("connectDapAsync", <<>>)>>)

connectCall(mode, origin) ==
    IF assertSupportedThrows
    THEN Threw(NewCall("connect", mode, origin, FALSE, "assertSupported", <<>>),
               withEnrichedErrors(NewError(UnsupportedMessage)))
    ELSE NewCall("connect", mode, origin, FALSE, "connectDapAsync",
                 <<Step("connectDapAsync", <<>>)>>)

-----------------------------------------------------------------------------
(* The collaborators *)

TransportOutcomes == {Ok} \cup {Fail(e) : e \in TransportErrors}

\* connectDapAsync can end with r on device d: where there is USB access it
\* establishes the session on the device held (on d when none is held yet);
\* or it fails with a transport error.
connectDapAsyncCan(r, d) ==
    /\ r \in TransportOutcomes
    /\ IF r = Ok
       THEN /\ usb
            /\ d \in ConnectableDevices
            /\ dap.device # NoDevice => d = dap.device
       ELSE d = NoDevice

\* Whether connectDapAsync can have asked the user to authorize a device
\* (requestAuthorization): it is called without arguments, so what it does
\* depends on the driver's state alone; holding no device, it takes an
\* authorized one or asks for one.
requestAuthorizationCan(asked) ==
    asked \in (IF dap.device = NoDevice THEN BOOLEAN ELSE {FALSE})

\* The driver after connectDapAsync ended with r on d.
connectDapAsync(r, d) ==
    IF r = Ok THEN [open |-> TRUE, device |-> d] ELSE dap

\* disconnectDapAsync can end with r: tearing down no session is a no-op;
\* tearing down a session closes it or fails with a transport error.
disconnectDapAsyncCan(r) ==
    /\ r \in TransportOutcomes
    /\ r # Ok => dap.open

\* The driver after disconnectDapAsync ended with r.
disconnectDapAsync(r) ==
    IF r = Ok THEN [dap EXCEPT !.open = FALSE] ELSE dap

InFlashOp(i) ==
    /\ i \in 1..Len(calls)
    /\ calls[i].op = "flash"
    /\ calls[i].pc \in {"flashAsync", "fullFlashAsync"}

\* The flash operation of call i reports progress p.
FlashProgress(i, p) ==
    /\ InFlashOp(i)
    /\ Len(calls[i].progress) < MaxProgress
    /\ calls' = [calls EXCEPT ![i].progress = Append(@, p)]
    /\ done' = Retired
    /\ emitted' = <<>>
    /\ UNCHANGED <<usb, options, status, dap, notified>>
    /\ UNCHANGED <<initialized, listeners, pureVars>>
    /\ MethodStep

-----------------------------------------------------------------------------
(* initialize *)

\* The listeners initialize() registers on navigator.usb: its two
\* addEventListener calls are commented out, so it registers none.
registeredListeners == {}

\* initialize() up to `await this.getPairedDevice()`.  The background
\* connect it may start needs a place in `calls` too.
StartInitialize ==
    /\ Room
    /\ Len(calls) + 2 <= MaxCalls
    /\ Issue(NewCall("initialize", None, "caller", FALSE, "getPairedDevice", <<>>))
    /\ emitted' = <<>>
    /\ initialized' = TRUE
    /\ UNCHANGED <<usb, options, status, dap, notified>>
    /\ UNCHANGED <<listeners, pureVars>>
    /\ MethodStep

\* initialize() from the answer `devices` of getDevices to its end.
InitializeResume(i, devices) ==
    /\ Awaiting(i, "initialize", "getPairedDevice")
    /\ LET device == getPairedDevice(devices)
           c == [calls[i] EXCEPT !.trace =
                    IF usb THEN <<Step("getDevices", <<devices>>)>> ELSE <<>>]
       IN  IF device # NoDevice
           THEN /\ status' = NOT_CONNECTED
                /\ emitted' = setStatus(NOT_CONNECTED)
                /\ done' = [Returned(c, None) EXCEPT !.id = i]
                /\ IF options.autoConnect
                   THEN calls' = Append([calls EXCEPT ![i] = Retired],
                                        connectCall(NON_INTERACTIVE, "initialize"))
                   ELSE calls' = [calls EXCEPT ![i] = Retired]
           ELSE /\ Advance(i, Returned(c, None))
                /\ emitted' = <<>>
                /\ UNCHANGED status
    /\ UNCHANGED <<usb, options, dap, notified>>
    /\ UNCHANGED <<initialized, listeners, pureVars>>
    /\ MethodStep

-----------------------------------------------------------------------------
(* connect *)

\* connect(mode), called by the application.
StartConnect(mode) ==
    /\ Room
    /\ Issue(connectCall(mode, "caller"))
    /\ emitted' = <<>>
    /\ UNCHANGED <<usb, options, status, dap, notified>>
    /\ UNCHANGED <<initialized, listeners, pureVars>>
    /\ MethodStep

\* What the catch handler of a connect started by `origin` emits for e.
catchEmitsNothing(origin, e) == <<>>

catchEmitsNoDevice(origin, e) == setStatus(NO_AUTHORIZED_DEVICE)

catchEmits(origin, e) ==
    IF origin = "initialize" THEN <<Event(EVENT_AUTOCONNECT_ERROR, None, e)>>
    ELSE IF origin = "handleConnect" THEN <<Event(EVENT_SERIAL_ERROR, None, e)>>
    ELSE <<>>

\* connect() from the completion of connectDapAsync (with r, on d) to its
\* end, with the catch handler of a background connect.
ConnectResume(i, r, d) ==
    /\ Awaiting(i, "connect", "connectDapAsync")
    /\ connectDapAsyncCan(r, d)
    /\ dap' = connectDapAsync(r, d)
    /\ \E asked \in BOOLEAN :
          /\ requestAuthorizationCan(asked)
          /\ LET c == [calls[i] EXCEPT !.prompted = asked]
             IN  IF r = Ok
                 THEN /\ status' = connectInternalResult
                      /\ emitted' = setStatus(status')
                      /\ Advance(i, Returned(c, status'))
                 ELSE LET e == withEnrichedErrors(r.e)
                      IN  /\ Advance(i, Threw(c, e))
                          /\ emitted' = catchEmits(c.origin, e)
                          /\ UNCHANGED status
    /\ UNCHANGED <<usb, options, notified>>
    /\ UNCHANGED <<initialized, listeners, pureVars>>
    /\ MethodStep

-----------------------------------------------------------------------------
(* disconnect *)

\* disconnect() up to `await this.connection.disconnectDapAsync()`.
StartDisconnect ==
    /\ Room
    /\ Issue(NewCall("disconnect", None, "caller", FALSE, "disconnectDapAsync",
                     <<Step("disconnectDapAsync", <<>>)>>))
    /\ emitted' = <<>>
    /\ UNCHANGED <<usb, options, status, dap, notified>>
    /\ UNCHANGED <<initialized, listeners, pureVars>>
    /\ MethodStep

\* disconnect() from the completion of disconnectDapAsync (with r) to its end.
DisconnectResume(i, r) ==
    /\ Awaiting(i, "disconnect", "disconnectDapAsync")
    /\ disconnectDapAsyncCan(r)
    /\ dap' = disconnectDapAsync(r)
    /\ LET c == [calls[i] EXCEPT !.idle = ~dap.open]
       IN  IF r = Ok
           THEN /\ status' = disconnectStatus
                /\ emitted' = setStatus(status')
                /\ Advance(i, Returned(c, None))
           ELSE /\ Advance(i, Threw(c, withEnrichedErrors(r.e)))
                /\ emitted' = <<>>
                /\ UNCHANGED status
    /\ UNCHANGED <<usb, options, notified>>
    /\ UNCHANGED <<initialized, listeners, pureVars>>
    /\ MethodStep

-----------------------------------------------------------------------------
(* flash *)

\* The first collaborator call flash() makes.
flashEntrySkipsTeardown == "connectDapAsync"

flashEntry == "disconnectDapAsync"

\* A failure of an awaited step of flash(): nothing catches it, the value
\* thrown rejects flash()'s promise as it is.
flashRejectSwallows(c, e) == Returned(c, None)

flashReject(c, e) == Threw(c, e)

\* The flash operation invoked for the payload `data`.
flashOperationAlwaysPartial(partial, data) ==
    Step("flashAsync", <<data.bytes, data.intelHex>>)

flashOperation(partial, data) ==
    IF partial
    THEN Step("flashAsync", <<data.bytes, data.intelHex>>)
    ELSE Step("fullFlashAsync", <<data.intelHex>>)

\* progress(undefined) at the end of flash().
terminalProgressFirst(progress) == <<NoPercentage>> \o progress

terminalProgress(progress) == Append(progress, NoPercentage)

\* The events a step of flash() emits: it never calls setStatus or emit.
flashEmitsConnected == setStatus(CONNECTED)

flashEmits == <<>>

\* flash(dataSource, {partial, progress}) up to
\* `await this.connection.disconnectDapAsync()`.
StartFlash(partial) ==
    /\ Room
    /\ Issue(NewCall("flash", None, "caller", partial, flashEntry,
                     <<Step(flashEntry, <<>>)>>))
    /\ emitted' = flashEmits
    /\ UNCHANGED <<usb, options, status, dap, notified>>
    /\ UNCHANGED <<initialized, listeners, pureVars>>
    /\ MethodStep

\* flash() from the completion of disconnectDapAsync (with r) to
\* `await this.connection.connectDapAsync()`.
FlashAfterDisconnect(i, r) ==
    /\ Awaiting(i, "flash", "disconnectDapAsync")
    /\ disconnectDapAsyncCan(r)
    /\ dap' = disconnectDapAsync(r)
    /\ LET c == calls[i]
       IN  Advance(i, IF r = Ok
                      THEN [c EXCEPT !.pc = "connectDapAsync",
                                     !.trace = Append(@, Step("connectDapAsync", <<>>))]
                      ELSE flashReject(c, r.e))
    /\ emitted' = flashEmits
    /\ UNCHANGED <<usb, options, status, notified>>
    /\ UNCHANGED <<initialized, listeners, pureVars>>
    /\ MethodStep

\* flash() from the completion of connectDapAsync (with r, on d), through
\* BoardId.parse(this.connection.dapwrapper.boardId) for the board
\* identifier rawId, to `await dataSource(boardId)`.
FlashAfterConnect(i, r, d, rawId) ==
    /\ Awaiting(i, "flash", "connectDapAsync")
    /\ connectDapAsyncCan(r, d)
    /\ dap' = connectDapAsync(r, d)
    /\ LET c == calls[i]
           parsed == BoardIdParse(rawId)
           read == Step("BoardId.parse", <<rawId>>)
       IN  IF r # Ok
           THEN /\ rawId = None
                /\ Advance(i, flashReject(c, r.e))
           ELSE /\ rawId # None
                /\ Advance(i, IF ~parsed.ok
                              THEN flashReject([c EXCEPT !.trace = Append(@, read)],
                                               parsed.e)
                              ELSE [c EXCEPT !.pc = "dataSource",
                                             !.boardId = parsed.id,
                                             !.trace = @ \o <<read,
                                                 Step("dataSource", <<parsed.id>>)>>])
    /\ emitted' = flashEmits
    /\ UNCHANGED <<usb, options, status, notified>>
    /\ UNCHANGED <<initialized, listeners, pureVars>>
    /\ MethodStep

\* flash() from the completion of dataSource (with r) to the await of the
\* flash operation.
FlashAfterDataSource(i, r) ==
    /\ Awaiting(i, "flash", "dataSource")
    /\ r \in {Ok, Fail(DataSourceError)}
    /\ LET c == calls[i]
           op == flashOperation(c.partial, FlashPayload(c.boardId))
       IN  Advance(i, IF r = Ok
                      THEN [c EXCEPT !.pc = op.fn, !.trace = Append(@, op)]
                      ELSE flashReject(c, r.e))
    /\ emitted' = flashEmits
    /\ UNCHANGED <<usb, options, status, dap, notified>>
    /\ UNCHANGED <<initialized, listeners, pureVars>>
    /\ MethodStep

\* flash() from the completion of the flash operation (with r) to its end.
FlashAfterFlashOp(i, r) ==
    /\ InFlashOp(i)
    /\ r \in {Ok, Fail(FlashError)}
    /\ LET c == calls[i]
       IN  Advance(i, IF r = Ok
                      THEN Returned([c EXCEPT !.progress = terminalProgress(@),
                                              !.trace = Append(@, Step("progress",
                                                                       <<Undefined>>))],
                                    None)
                      ELSE flashReject(c, r.e))
    /\ emitted' = flashEmits
    /\ UNCHANGED <<usb, options, status, dap, notified>>
    /\ UNCHANGED <<initialized, listeners, pureVars>>
    /\ MethodStep

-----------------------------------------------------------------------------
(* Device notifications *)

\* handleConnect(event) for event.device = device.
handleConnect(device) ==
    IF matchesDeviceFilter(device) /\ status = NO_AUTHORIZED_DEVICE
    THEN /\ status' = NOT_CONNECTED
         /\ emitted' = setStatus(NOT_CONNECTED)
         /\ IF options.autoConnect
            THEN /\ Room
                 /\ Issue(connectCall(NON_INTERACTIVE, "handleConnect"))
            ELSE UNCHANGED calls /\ done' = Retired
    ELSE /\ UNCHANGED <<status, calls>>
         /\ done' = Retired
         /\ emitted' = <<>>

\* handleDisconnect(event) for event.device = device.
handleDisconnect(device) ==
    /\ IF device = dap.device
       THEN /\ status' = NO_AUTHORIZED_DEVICE
            /\ emitted' = setStatus(NO_AUTHORIZED_DEVICE)
       ELSE /\ UNCHANGED status
            /\ emitted' = <<>>
    /\ done' = Retired
    /\ UNCHANGED calls

\* navigator.usb announces that `device` was plugged in: the "connect"
\* listeners registered by initialize() run.
UsbConnect(device) ==
    /\ usb
    /\ notified < MaxNotifications
    /\ notified' = notified + 1
    /\ notice' = Notice("connect", device)
    /\ IF initialized /\ "connect" \in registeredListeners
       THEN handleConnect(device)
       ELSE /\ UNCHANGED <<status, calls>>
            /\ done' = Retired
            /\ emitted' = <<>>
    /\ observed' = Listened(emitted', observed)
    /\ UNCHANGED <<usb, options, dap, initialized>>
    /\ UNCHANGED <<listeners, pureVars>>

\* navigator.usb announces that `device` was unplugged: the "disconnect"
\* listeners registered by initialize() run.
UsbDisconnect(device) ==
    /\ usb
    /\ notified < MaxNotifications
    /\ notified' = notified + 1
    /\ notice' = Notice("disconnect", device)
    /\ IF initialized /\ "disconnect" \in registeredListeners
       THEN handleDisconnect(device)
       ELSE /\ UNCHANGED <<status, calls>>
            /\ done' = Retired
            /\ emitted' = <<>>
    /\ observed' = Listened(emitted', observed)
    /\ UNCHANGED <<usb, options, dap, initialized>>
    /\ UNCHANGED <<listeners, pureVars>>

-----------------------------------------------------------------------------
(* Listeners of the application *)

\* A method that runs to its end in the step it is called in.
Synchronous(op, trace) ==
    Returned(NewCall(op, None, "caller", FALSE, "done", trace), None)

\* on(event, listener), inherited from EventEmitter.
Subscribe ==
    /\ Len(calls) < MaxCalls
    /\ listeners < MaxListeners
    /\ listeners' = listeners + 1
    /\ Issue(Synchronous("on", <<>>))
    /\ emitted' = <<>>
    /\ UNCHANGED <<usb, options, status, dap, notified>>
    /\ UNCHANGED <<initialized, pureVars>>
    /\ MethodStep

\* off(event, listener), inherited from EventEmitter.
Unsubscribe ==
    /\ Len(calls) < MaxCalls
    /\ listeners > 0
    /\ listeners' = listeners - 1
    /\ Issue(Synchronous("off", <<>>))
    /\ emitted' = <<>>
    /\ UNCHANGED <<usb, options, status, dap, notified>>
    /\ UNCHANGED <<initialized, pureVars>>
    /\ MethodStep

\* What dispose() emits: it calls neither setStatus nor emit.
disposeEmitsNoDevice == setStatus(NO_AUTHORIZED_DEVICE)

disposeEmits == <<>>

\* dispose(): removeAllListeners(), then with navigator.usb the two
\* removeEventListener calls (of listeners initialize() never registered).
Dispose ==
    /\ Len(calls) < MaxCalls
    /\ listeners' = 0
    /\ Issue(Synchronous("dispose",
            <<Step("removeAllListeners", <<>>)>> \o
            (IF usb THEN <<Step("removeEventListener", <<"connect">>),
                           Step("removeEventListener", <<"disconnect">>)>>
                    ELSE <<>>)))
    /\ emitted' = disposeEmits
    /\ UNCHANGED <<usb, options, status, dap, notified>>
    /\ UNCHANGED <<initialized, pureVars>>
    /\ MethodStep

-----------------------------------------------------------------------------
(* The connection's specification *)

ClassifierIdle ==
    /\ raw = NoError
    /\ enriched = NoError
    /\ applied = 0

FilterIdle ==
    /\ probe = NoDevice
    /\ matched = {}

Init ==
    /\ usb \in BOOLEAN
    /\ options \in [autoConnect : BOOLEAN, deviceFilters : FilterSets]
    /\ status = IF usb THEN NO_AUTHORIZED_DEVICE ELSE NOT_SUPPORTED
    /\ dap = [open |-> FALSE, device |-> NoDevice]
    /\ calls = <<>>
    /\ done = Retired
    /\ emitted = <<>>
    /\ notified = 0
    /\ initialized = FALSE
    /\ notice = NoNotice
    /\ observed = status
    /\ listeners = 0
    /\ ClassifierIdle
    /\ FilterIdle

Next ==
    \/ StartInitialize
    \/ \E i \in 1..Len(calls), devices \in IF usb THEN SUBSET Devices ELSE {{}} :
          InitializeResume(i, devices)
    \/ \E mode \in ConnectionMode : StartConnect(mode)
    \/ \E i \in 1..Len(calls), r \in TransportOutcomes,
          d \in ConnectableDevices \cup {NoDevice} : ConnectResume(i, r, d)
    \/ StartDisconnect
    \/ \E i \in 1..Len(calls), r \in TransportOutcomes : DisconnectResume(i, r)
    \/ \E partial \in BOOLEAN : StartFlash(partial)
    \/ \E i \in 1..Len(calls), r \in TransportOutcomes : FlashAfterDisconnect(i, r)
    \/ \E i \in 1..Len(calls), r \in TransportOutcomes,
          d \in ConnectableDevices \cup {NoDevice}, rawId \in RawBoardIds \cup {None} :
          FlashAfterConnect(i, r, d, rawId)
    \/ \E i \in 1..Len(calls), r \in {Ok, Fail(DataSourceError)} : FlashAfterDataSource(i, r)
    \/ \E i \in 1..Len(calls), p \in Percentages : FlashProgress(i, p)
    \/ \E i \in 1..Len(calls), r \in {Ok, Fail(FlashError)} : FlashAfterFlashOp(i, r)
    \/ \E device \in Devices : UsbConnect(device)
    \/ \E device \in Devices : UsbDisconnect(device)
    \/ Subscribe
    \/ Unsubscribe
    \/ Dispose

Spec == Init /\ [][Next]_vars

-----------------------------------------------------------------------------
(* The classifier's specification: enrichedError applied to a thrown value, *)
(* and again to its own result.                                             *)

Messages ==
    { ClaimMessage, ClaimAdvice, UnsupportedMessage, "No device selected.",
      "transfer error", "Flash failed", "", "unable to claim interface.",
      "constructor", "toString" }

\* Values a collaborator can throw: Error objects, some carrying a `type`
\* already, and non-Error values.
RawValues ==
    { Thrown(TRUE, m, t) : m \in Messages, t \in ConnectionErrorType \cup {Undefined} }
    \cup { Thrown(FALSE, m, Undefined) : m \in Messages }

InitClassify ==
    /\ usb = TRUE
    /\ options = [autoConnect |-> TRUE, deviceFilters |-> DefaultFilters]
    /\ status = NO_AUTHORIZED_DEVICE
    /\ dap = [open |-> FALSE, device |-> NoDevice]
    /\ calls = <<>>
    /\ done = Retired
    /\ emitted = <<>>
    /\ notified = 0
    /\ initialized = FALSE
    /\ notice = NoNotice
    /\ observed = status
    /\ listeners = 0
    /\ raw \in RawValues
    /\ enriched = raw
    /\ applied = 0
    /\ FilterIdle

Classify ==
    /\ applied < MaxApplied
    /\ enriched' = enrichedError(enriched)
    /\ applied' = applied + 1
    /\ UNCHANGED raw
    /\ UNCHANGED mainVars
    /\ UNCHANGED filterVars

NextClassify == Classify

SpecClassify == InitClassify /\ [][NextClassify]_vars

-----------------------------------------------------------------------------
(* The filter's specification: matchesDeviceFilter applied to a device,    *)
(* for the filter sets the options can hold.                               *)

\* USBDeviceFilter values: each field set or left out.
ProbeFilters ==
    [vendorId : {Wild, MicrobitVendorId}, productId : {Wild, MicrobitProductId, 1}]

ProbeDevices ==
    [name : {"probe"}, vendorId : {MicrobitVendorId, 7}, productId : {MicrobitProductId, 1}]

InitFilter ==
    /\ usb = TRUE
    /\ options \in [autoConnect : {TRUE}, deviceFilters : SUBSET ProbeFilters]
    /\ status = NO_AUTHORIZED_DEVICE
    /\ dap = [open |-> FALSE, device |-> NoDevice]
    /\ calls = <<>>
    /\ done = Retired
    /\ emitted = <<>>
    /\ notified = 0
    /\ initialized = FALSE
    /\ notice = NoNotice
    /\ observed = status
    /\ listeners = 0
    /\ ClassifierIdle
    /\ probe \in ProbeDevices
    /\ matched = {}

Match ==
    /\ matched = {}
    /\ matched' = {matchesDeviceFilter(probe)}
    /\ UNCHANGED probe
    /\ UNCHANGED mainVars
    /\ UNCHANGED classifyVars

NextFilter == Match

SpecFilter == InitFilter /\ [][NextFilter]_vars

-----------------------------------------------------------------------------
(* Claims *)

StatusEvent(st) == <<Event(EVENT_STATUS, st, NoError)>>

Fns(trace) == [k \in 1..Len(trace) |-> trace[k].fn]

\* C1: status is NOT_SUPPORTED in every reachable state if navigator.usb was
\* absent at construction, and never NOT_SUPPORTED if it was present.
C1_NotSupportedIffNoUsb == (status = NOT_SUPPORTED) <=> ~usb

\* C2: whenever connect(mode) resolves, for either mode, status is CONNECTED
\* at that moment, the value returned is CONNECTED, and the call emitted one
\* status event carrying CONNECTED.
C2_ConnectResolvesConnected ==
    (done.op = "connect" /\ done.out = "ok") =>
        /\ done.mode \in ConnectionMode
        /\ status = CONNECTED
        /\ done.ret = CONNECTED
        /\ emitted = StatusEvent(CONNECTED)

C2_Witness ==
    /\ done.op = "connect"
    /\ done.out = "ok"
    /\ done.mode = INTERACTIVE
    /\ dap.open

C4_FailedTeardownStillNotConnected ==
    (done.op = "disconnect" /\ done.out = "err") =>
        /\ done.err.type \in ConnectionErrorType
        /\ status = NOT_CONNECTED
        /\ emitted = StatusEvent(NOT_CONNECTED)

\* C5 as stated: without navigator.usb, connect(mode) fails for either mode
\* with an error classified as not supported (neither UNKNOWN nor
\* UNABLE_TO_CLAIM_INTERFACE), and connectDapAsync is never called.
C5_UnsupportedHasItsOwnKind ==
    (done.op = "connect" /\ ~usb) =>
        /\ done.out = "err"
        /\ done.err.type \notin ConnectionErrorType
        /\ done.trace = <<>>

\* C5 as amended: without navigator.usb, connect(mode) fails for either mode
\* with the error "Unsupported. Check connection status first.", which is
\* classified as UNKNOWN, and connectDapAsync is never called: no connect
\* call ever awaits it.
C5_UnsupportedIsUnknown ==
    ~usb =>
        /\ \A i \in 1..Len(calls) : calls[i].op # "connect"
        /\ done.op = "connect" =>
              /\ done.mode \in ConnectionMode
              /\ done.out = "err"
              /\ done.err = Thrown(TRUE, UnsupportedMessage, UNKNOWN)
              /\ done.trace = <<>>
              /\ emitted = <<>>

C5_Witness ==
    /\ ~usb
    /\ done.op = "connect"
    /\ done.mode = NON_INTERACTIVE
    /\ done.out = "err"

\* The collaborator calls of a flash() that runs to its end, in order.
FlashSequence(partial) ==
    <<"disconnectDapAsync", "connectDapAsync", "BoardId.parse", "dataSource",
      IF partial THEN "flashAsync" ELSE "fullFlashAsync", "progress">>

\* C6: a flash() that resolves has torn down the session, established a
\* fresh one, parsed the board identifier, called dataSource with the parsed
\* identity, invoked one flash operation and made the terminal progress
\* call: each once, in this order.
C6_FlashStepsInOrder ==
    (done.op = "flash" /\ done.out = "ok") =>
        /\ Fns(done.trace) = FlashSequence(done.partial)
        /\ done.trace[4].args = <<BoardIdParse(done.trace[3].args[1]).id>>
        /\ done.trace[6].args = <<Undefined>>

C6_Witness ==
    /\ done.op = "flash"
    /\ done.out = "ok"
    /\ done.partial
    /\ Len(done.trace) = 6

\* C7: a flash() that resolves has called progress without a percentage
\* exactly once, as its last progress call, after every percentage the
\* flash operation reported; before flash() ends no such call is made.
C7_TerminalProgressOnceAndLast ==
    /\ (done.op = "flash" /\ done.out = "ok") =>
          LET n == Len(done.progress)
          IN  /\ n >= 1
              /\ done.progress[n] = NoPercentage
              /\ \A k \in 1..(n - 1) : done.progress[k] \in 0..100
    /\ \A i \in 1..Len(calls) :
          \A k \in 1..Len(calls[i].progress) : calls[i].progress[k] \in 0..100

C7_Witness ==
    /\ done.op = "flash"
    /\ done.out = "ok"
    /\ Len(done.progress) >= 2
    /\ done.progress[1] \in Percentages

\* What the step fn throws when it fails.
Raised(fn) ==
    IF fn \in {"disconnectDapAsync", "connectDapAsync"} THEN TransportErrors
    ELSE IF fn = "BoardId.parse" THEN {ParseError}
    ELSE IF fn = "dataSource" THEN {DataSourceError}
    ELSE IF fn \in {"flashAsync", "fullFlashAsync"} THEN {FlashError}
    ELSE {}

\* C8: a flash() in which a step fails stops at that step: it made no later
\* collaborator call, it made no terminal progress call, and it throws the
\* error of the failed step to its caller.
C8_FlashAbortsOnFailure ==
    done.op = "flash" =>
        LET n == Len(done.trace)
            aborted == done.trace[n].fn # "progress"
        IN  /\ n >= 1
            /\ Fns(done.trace) = SubSeq(FlashSequence(done.partial), 1, n)
            /\ aborted <=> done.out = "err"
            /\ aborted =>
                  /\ done.err \in Raised(done.trace[n].fn)
                  /\ \A k \in 1..Len(done.progress) : done.progress[k] # NoPercentage

C8_Witness ==
    /\ done.op = "flash"
    /\ done.out = "err"
    /\ done.err = ParseError
    /\ Len(done.trace) = 3

\* C11: a connect(NON_INTERACTIVE), the background connect of initialize
\* included, never has the user asked to authorize a device.
C11_NonInteractiveNeverPrompts ==
    (done.op = "connect" /\ done.mode = NON_INTERACTIVE) => ~done.prompted

\* The flash() calls under way and the one that has just finished.
FlashCalls ==
    {calls[i] : i \in {j \in 1..Len(calls) : calls[j].op = "flash"}}
        \cup (IF done.op = "flash" THEN {done} ELSE {})

\* The places in trace where a flash operation of the driver is invoked.
FlashOps(trace) ==
    {k \in 1..Len(trace) : trace[k].fn \in {"flashAsync", "fullFlashAsync"}}

\* C12: a flash() invokes at most one flash operation of the driver, the one
\* its partial flag names: fullFlashAsync with the payload's HEX text alone
\* when partial is false, flashAsync with the payload's bytes and its HEX
\* text when partial is true; a flash() that resolves has invoked it.
C12_FlashOperationFollowsPartial ==
    \A c \in FlashCalls :
        LET ops == FlashOps(c.trace)
            payload == FlashPayload(c.boardId)
        IN  /\ Cardinality(ops) <= 1
            /\ c.out = "ok" => ops # {}
            /\ \A k \in ops :
                  IF c.partial
                  THEN c.trace[k] = Step("flashAsync", <<payload.bytes, payload.intelHex>>)
                  ELSE /\ c.trace[k] = Step("fullFlashAsync", <<payload.intelHex>>)
                       /\ \A a \in 1..Len(c.trace[k].args) :
                             c.trace[k].args[a] # payload.bytes

C12_Witness ==
    /\ done.op = "flash"
    /\ done.out = "ok"
    /\ ~done.partial
    /\ FlashOps(done.trace) = {5}

\* The devices among `devices` that a configured filter matches.
Matching(devices) == {d \in devices : matchesDeviceFilter(d)}

\* C13: with navigator.usb present, the step that ends initialize() sets
\* status to NOT_CONNECTED (emitting it) if exactly one of the devices
\* getDevices answered matches the filters; otherwise it leaves status as it
\* was (NO_AUTHORIZED_DEVICE stays), emits nothing and starts no connect.
C13_InitializeSelectsOnlyDevice ==
    [][ (usb /\ done'.op = "initialize") =>
            IF Cardinality(Matching(done'.trace[1].args[1])) = 1
            THEN /\ status' = NOT_CONNECTED
                 /\ emitted' = StatusEvent(NOT_CONNECTED)
            ELSE /\ status' = status
                 /\ emitted' = <<>>
                 /\ Len(calls') = Len(calls) ]_vars

C13_Witness ==
    /\ usb
    /\ done.op = "initialize"
    /\ Cardinality(Matching(done.trace[1].args[1])) = 2
    /\ status = NO_AUTHORIZED_DEVICE
    /\ emitted = <<>>

\* C14: initialize() always returns normally, and a failure of the background
\* connect it started is not thrown to anyone: it is emitted, enriched, as
\* one autoconnect_error event, which nothing else emits.
C14_AutoconnectFailureIsNotified ==
    LET failed == /\ done.op = "connect"
                  /\ done.origin = "initialize"
                  /\ done.out = "err"
    IN  /\ done.op = "initialize" => done.out = "ok"
        /\ failed =>
              /\ done.err \in {enrichedError(e) : e \in TransportErrors}
              /\ emitted = <<Event(EVENT_AUTOCONNECT_ERROR, None, done.err)>>
        /\ \A k \in 1..Len(emitted) :
              emitted[k].ch = EVENT_AUTOCONNECT_ERROR => failed

C14_Witness ==
    /\ done.op = "connect"
    /\ done.origin = "initialize"
    /\ done.out = "err"
    /\ done.err.type = UNABLE_TO_CLAIM_INTERFACE
    /\ \E i \in 1..Len(calls) : calls[i] = Retired

\* The step delivers the notification `kind` to an instance on which
\* initialize() has been called.
Delivers(kind) == initialized /\ notice'.kind = kind

\* The background connect started by handleConnect is awaiting the driver.
AttachConnectPending(cs) ==
    \E i \in 1..Len(cs) :
        /\ cs[i].op = "connect"
        /\ cs[i].origin = "handleConnect"
        /\ cs[i].mode = NON_INTERACTIVE
        /\ cs[i].pc = "connectDapAsync"

\* C15: a device-attach notification changes status if and only if the
\* device matches the filters and status is NO_AUTHORIZED_DEVICE, and then
\* to NOT_CONNECTED with its status event; otherwise status is unchanged,
\* nothing is emitted and no connect is started.
C15_AttachMovesNoDeviceToNotConnected ==
    [][ Delivers("connect") =>
            IF matchesDeviceFilter(notice'.device) /\ status = NO_AUTHORIZED_DEVICE
            THEN /\ status' = NOT_CONNECTED
                 /\ emitted' = StatusEvent(NOT_CONNECTED)
            ELSE /\ status' = status
                 /\ emitted' = <<>>
                 /\ Len(calls') = Len(calls) ]_vars

\* C16: after initialize(), the attachment of a matching device while status
\* is NO_AUTHORIZED_DEVICE and autoConnect is set makes status NOT_CONNECTED
\* (notified) and starts a background connect; when that connect resolves,
\* status becomes CONNECTED, notified after NOT_CONNECTED.
C16_AttachLeadsToConnected ==
    /\ [][ ( /\ Delivers("connect")
             /\ matchesDeviceFilter(notice'.device)
             /\ status = NO_AUTHORIZED_DEVICE
             /\ options.autoConnect ) =>
               /\ status' = NOT_CONNECTED
               /\ observed' = NOT_CONNECTED
               /\ AttachConnectPending(calls') ]_vars
    /\ []( (done.op = "connect" /\ done.origin = "handleConnect" /\ done.out = "ok") =>
               /\ status = CONNECTED
               /\ observed = CONNECTED )

\* C17: the attachment of a matching device (status NO_AUTHORIZED_DEVICE,
\* autoConnect set) starts a background connect whose failure is emitted as
\* one autoconnect_error event carrying the enriched error, and as nothing
\* else: no serial_error event is ever emitted for it.
C17_AttachFailureIsAutoconnectError ==
    /\ [][ ( /\ Delivers("connect")
             /\ matchesDeviceFilter(notice'.device)
             /\ status = NO_AUTHORIZED_DEVICE
             /\ options.autoConnect ) => AttachConnectPending(calls') ]_vars
    /\ []( (done.op = "connect" /\ done.origin = "handleConnect" /\ done.out = "err") =>
               emitted = <<Event(EVENT_AUTOCONNECT_ERROR, None, done.err)>> )
    /\ [](\A k \in 1..Len(emitted) : emitted[k].ch # EVENT_SERIAL_ERROR)

\* C18: a device-detach notification for the device of the driver's session
\* makes status NO_AUTHORIZED_DEVICE (notified), whatever status was; one
\* for another device leaves status unchanged and emits nothing.
C18_DetachOfActiveDeviceResets ==
    [][ Delivers("disconnect") =>
            IF notice'.device = dap.device
            THEN /\ status' = NO_AUTHORIZED_DEVICE
                 /\ emitted' = StatusEvent(NO_AUTHORIZED_DEVICE)
            ELSE /\ status' = status
                 /\ emitted' = <<>> ]_vars

\* The statuses the status events among `events` carry, in order.
StatusesOf(events) ==
    LET IsStatus(e) == e.ch = EVENT_STATUS
        sent == SelectSeq(events, IsStatus)
    IN  [k \in 1..Len(sent) |-> sent[k].status]

\* C19: every step that changes status emits exactly one status event, which
\* carries the new status, and a step emits a status event only for the
\* status it assigns; so status always equals the status the last status
\* event carried (the initial status before any).
C19_StatusChangesNotifiedInOrder ==
    /\ [](status = observed)
    /\ [][ LET sent == StatusesOf(emitted')
           IN  /\ Len(sent) <= 1
               /\ status' # status => sent = <<status'>>
               /\ sent # <<>> => sent = <<status'>> ]_vars

C19_Witness ==
    /\ done.op = "disconnect"
    /\ status = NOT_CONNECTED
    /\ observed = NOT_CONNECTED
    /\ emitted = StatusEvent(NOT_CONNECTED)
    /\ dap.device # NoDevice

\* The calls that have a call to the driver under way.
DriverCalls ==
    {i \in 1..Len(calls) :
        calls[i].pc \in {"connectDapAsync", "disconnectDapAsync",
                         "flashAsync", "fullFlashAsync"}}

\* C20: at most one of the connect, disconnect and flash calls under way
\* (background connects included) has a call to the driver in flight.
C20_OneDriverCallInFlight == Cardinality(DriverCalls) <= 1

\* c is a background connect (started by initialize or by handleConnect)
\* that has finished; d a disconnect() of the caller, issued after c was
\* started, that has resolved.
Autoconnect(c) == c.op = "connect" /\ c.origin \in {"initialize", "handleConnect"}

LaterDisconnect(d, c) == d.op = "disconnect" /\ d.out = "ok" /\ d.id > c.id

\* C21: when the caller issues disconnect() while a background connect is in
\* flight and the two finish one right after the other, in either order,
\* status is NOT_CONNECTED once both have finished.
C21_DisconnectWinsOverAutoconnect ==
    [][ ( \/ Autoconnect(done') /\ LaterDisconnect(done, done')
          \/ Autoconnect(done) /\ LaterDisconnect(done', done) ) =>
            status' = NOT_CONNECTED ]_vars

\* C22: matchesDeviceFilter(device) is true exactly when some configured
\* filter has its vendorId left out or equal to the device's and its
\* productId left out or equal to the device's; so no device matches an
\* empty filter set and every device matches a filter with both left out.
C22_MatchesSomeFilter ==
    matched # {} =>
        /\ matched =
              { \E f \in options.deviceFilters :
                    /\ f.vendorId \in {Wild, probe.vendorId}
                    /\ f.productId \in {Wild, probe.productId} }
        /\ options.deviceFilters = {} => matched = {FALSE}
        /\ [vendorId |-> Wild, productId |-> Wild] \in options.deviceFilters =>
              matched = {TRUE}

C22_Witness ==
    /\ matched = {TRUE}
    /\ Cardinality(options.deviceFilters) = 2
    /\ \E f \in options.deviceFilters : f.productId \notin {Wild, probe.productId}
    /\ \A f \in options.deviceFilters : f.vendorId # Wild \/ f.productId # Wild

\* C23: in every state with no call in flight, status is CONNECTED only
\* if the driver holds an open session, and status is NOT_CONNECTED or
\* NO_AUTHORIZED_DEVICE only if it holds none, a finished flash() included.
C23_QuiescentStatusMatchesSession ==
    InFlight = 0 =>
        /\ status = CONNECTED => dap.open
        /\ status \in {NOT_CONNECTED, NO_AUTHORIZED_DEVICE} => ~dap.open

\* A step taken by a flash() call: it is issued, goes on, or finishes.
FlashStep ==
    \/ done'.op = "flash"
    \/ \E i \in 1..Len(calls') :
          /\ calls'[i].op = "flash"
          /\ i \in 1..Len(calls) => calls[i] # calls'[i]

\* C24: no step of a flash() call, whether the call goes on, resolves or
\* throws at any step, changes status or emits an event: status after the
\* step is status before it and listeners have received nothing new.
C24_FlashLeavesStatusAlone ==
    [][ FlashStep =>
          /\ status' = status
          /\ emitted' = <<>>
          /\ observed' = observed ]_vars

C24_Witness ==
    /\ done.op = "flash"
    /\ done.out = "ok"
    /\ status = NO_AUTHORIZED_DEVICE
    /\ observed = NO_AUTHORIZED_DEVICE
    /\ dap.open

\* C25: the step in which a connect(mode) call throws, for the capability
\* being absent or for connectDapAsync failing, leaves status as it was and
\* emits no status event, and so does the step in which a caller issues
\* connect; a failed background connect of initialize() never leaves status
\* NO_AUTHORIZED_DEVICE.
C25_FailedConnectLeavesStatus ==
    [][ /\ (done'.op = "connect" /\ done'.out = "err") =>
              /\ status' = status
              /\ StatusesOf(emitted') = <<>>
              /\ observed' = observed
              /\ done'.origin = "initialize" => status' # NO_AUTHORIZED_DEVICE
        /\ (Len(calls') > Len(calls) /\ calls'[Len(calls')].op = "connect"
               /\ calls'[Len(calls')].origin = "caller") =>
              /\ status' = status
              /\ emitted' = <<>> ]_vars

C25_Witness ==
    /\ done.op = "connect"
    /\ done.origin = "initialize"
    /\ done.out = "err"
    /\ done.err.type = UNABLE_TO_CLAIM_INTERFACE
    /\ status = NOT_CONNECTED
    /\ observed = NOT_CONNECTED
    /\ InFlight = 0

\* The connect calls initialize() has started, pending or just finished.
InitializeConnects ==
    {calls[i] : i \in {j \in 1..Len(calls) :
                          calls[j].op = "connect" /\ calls[j].origin = "initialize"}}
        \cup (IF done.op = "connect" /\ done.origin = "initialize" THEN {done} ELSE {})

\* C26: the step that ends initialize() starts a connect if and only if
\* autoConnect is set and exactly one device getDevices answered matches the
\* filters; that connect is NON_INTERACTIVE and is left awaiting
\* connectDapAsync by a step that has set status to NOT_CONNECTED and emitted
\* it, so any CONNECTED event of that connect comes in a later step; with
\* autoConnect unset no connect of initialize() ever exists.
C26_AutoconnectIffOneDeviceAndEnabled ==
    /\ [][ done'.op = "initialize" =>
             LET found == usb /\ Cardinality(Matching(done'.trace[1].args[1])) = 1
                 started == Len(calls') > Len(calls)
                 c == calls'[Len(calls')]
             IN  /\ started <=> (options.autoConnect /\ found)
                 /\ started =>
                       /\ Len(calls') = Len(calls) + 1
                       /\ c.op = "connect"
                       /\ c.origin = "initialize"
                       /\ c.mode = NON_INTERACTIVE
                       /\ c.pc = "connectDapAsync"
                       /\ c.trace = <<Step("connectDapAsync", <<>>)>>
                       /\ status' = NOT_CONNECTED
                       /\ emitted' = StatusEvent(NOT_CONNECTED)
                       /\ observed' = NOT_CONNECTED ]_vars
    /\ [](~options.autoConnect => InitializeConnects = {})

C26_Witness ==
    /\ usb
    /\ done.op = "initialize"
    /\ options.autoConnect
    /\ Cardinality(Matching(done.trace[1].args[1])) = 1
    /\ Cardinality(done.trace[1].args[1]) = 2
    /\ \E c \in InitializeConnects : c.mode = NON_INTERACTIVE /\ c.pc = "connectDapAsync"
    /\ status = NOT_CONNECTED

\* No step makes status NO_AUTHORIZED_DEVICE again once it has left it (this
\* holds of the program, and is why C27 does not).
NoDeviceNeverReentered ==
    [][status # NO_AUTHORIZED_DEVICE => status' # NO_AUTHORIZED_DEVICE]_vars

\* C27: with navigator.usb present, NO_AUTHORIZED_DEVICE can be reached again
\* from CONNECTED: in every state after initialize() in which status is
\* CONNECTED and a device notification can still arrive, one is possible (the
\* detachment of the session's device) that makes status
\* NO_AUTHORIZED_DEVICE.
C27_NoDeviceReachableFromConnected ==
    (usb /\ initialized /\ status = CONNECTED /\ notified < MaxNotifications) =>
        ENABLED (UsbDisconnect(dap.device) /\ status' = NO_AUTHORIZED_DEVICE)

\* The step is a call of on, off or dispose.
ListenerStep == done'.op \in {"on", "off", "dispose"}

\* C28: a call of on, off or dispose() changes neither status nor the
\* driver's session, emits nothing and leaves every call in flight where it
\* was; and with no listener left a connect or disconnect that was in flight
\* still resolves with the result and the status update it has otherwise.
C28_ListenersDoNotAffectOperations ==
    /\ [][ ListenerStep =>
             /\ status' = status
             /\ dap' = dap
             /\ emitted' = <<>>
             /\ observed' = observed
             /\ SubSeq(calls', 1, Len(calls)) = calls ]_vars
    /\ []( (listeners = 0 /\ done.op = "connect" /\ done.out = "ok") =>
              /\ done.ret = CONNECTED
              /\ status = CONNECTED
              /\ emitted = StatusEvent(CONNECTED) )
    /\ []( (listeners = 0 /\ done.op = "disconnect" /\ done.out = "ok") =>
              /\ status = NOT_CONNECTED
              /\ emitted = StatusEvent(NOT_CONNECTED) )

C28_Witness ==
    /\ done.op = "dispose"
    /\ listeners = 0
    /\ Fns(done.trace) = <<"removeAllListeners", "removeEventListener",
                           "removeEventListener">>
    /\ \E i \in 1..Len(calls) : calls[i].op = "connect" /\ calls[i].pc = "connectDapAsync"
    /\ status = NO_AUTHORIZED_DEVICE
    /\ ~dap.open

\* C29: enrichedError applied to a value it has already classified yields
\* the same type and message as its first application (an
\* UNABLE_TO_CLAIM_INTERFACE error stays UNABLE_TO_CLAIM_INTERFACE).
C29_ClassifierIdempotent ==
    applied = 2 =>
        /\ enriched.type = enrichedError(raw).type
        /\ enriched.message = enrichedError(raw).message

\* C9: every error thrown to a caller by connect, disconnect or flash, and
\* every error emitted as an autoconnect error, has been classified: it
\* carries one ConnectionErrorType.
C9_SurfacedErrorsClassified ==
    /\ (done.op \in {"connect", "disconnect", "flash"} /\ done.out = "err") =>
          done.err.type \in ConnectionErrorType
    /\ \A k \in 1..Len(emitted) :
          emitted[k].ch = EVENT_AUTOCONNECT_ERROR =>
              emitted[k].err.type \in ConnectionErrorType

\* C10: enrichedError maps a value whose message is exactly "Unable to claim
\* interface." to UNABLE_TO_CLAIM_INTERFACE with the advice to close other
\* tabs, and every other value, Error or not, to UNKNOWN with its message
\* unchanged.
C10_ClassifierTotal ==
    applied = 1 =>
        IF raw.message = ClaimMessage
        THEN enriched = Thrown(TRUE, ClaimAdvice, UNABLE_TO_CLAIM_INTERFACE)
        ELSE enriched = Thrown(TRUE, raw.message, UNKNOWN)

=============================================================================
